---- MODULE Spec2Model ----
(***************************************************************************)
(* AIO Pro Backend (src/app.py): the site-discovery endpoint crawl_site    *)
(* and the helpers it is built from, as a state machine.                   *)
(*                                                                         *)
(* A string is a sequence of tokens.  A token is a run of characters that  *)
(* the code never looks inside ("https://", "ex.com", "/a", "#", " ").     *)
(* TokenOrder lists the tokens in code-point order, so that the            *)
(* lexicographic order of token sequences is Python's order of the strings *)
(* they spell.                                                             *)
(***************************************************************************)
EXTENDS Integers, Sequences, FiniteSets, TLC

\* ------------------------------------------------------------------------
\* Strings
\* ------------------------------------------------------------------------

TokenOrder ==
    << " ", "#", "/", "/a", "/b", "/blog", "/c", "/d", "/e", "/f",
       "/feed/sitemap.xml", "/g", "/h", "/i", "/j", "/k", "/l",
       "/page-sitemap.xml", "/post-sitemap.xml", "/robots.txt",
       "/services", "/sitemap-1.xml", "/sitemap.xml", "/sitemap_index.xml",
       "/wp-json/", "/wp-json/wp/v2/pages?per_page=100",
       "/wp-json/wp/v2/pages?per_page=100&page=2",
       "/wp-json/wp/v2/posts?per_page=100", "/wp-sitemap.xml", "/x",
       ":8080", "[bad", "ex.com", "http://", "https://", "mailto:", "other.com",
       "top", "x" >>

TokRank(t) == CHOOSE i \in 1..Len(TokenOrder) : TokenOrder[i] = t

SchemeTokens == {"http://", "https://", "mailto:"}
AuthorityTokens == {"ex.com", "other.com", ":8080"}
\* An authority with an unbalanced bracket.
MalformedTokens == {"[bad"}
Whitespace == {" "}
EmptyStr == << >>

\* Python's str < str: the first differing position decides, a proper
\* prefix is smaller.
StrLess(s, t) ==
    LET n == IF Len(s) < Len(t) THEN Len(s) ELSE Len(t)
        differ == {i \in 1..n : s[i] # t[i]}
    IN  IF differ = {} THEN Len(s) < Len(t)
        ELSE LET d == CHOOSE i \in differ : \A j \in differ : i <= j
             IN  TokRank(s[d]) < TokRank(t[d])

\* str.strip(): leading and trailing whitespace removed.
Strip(s) ==
    LET black == {i \in 1..Len(s) : s[i] \notin Whitespace}
    IN  IF black = {} THEN << >>
        ELSE SubSeq(s, CHOOSE i \in black : \A j \in black : i <= j,
                       CHOOSE i \in black : \A j \in black : j <= i)

\* The index of the first "#" of s, or 0.
FirstHash(s) ==
    IF \E i \in 1..Len(s) : s[i] = "#"
    THEN CHOOSE i \in 1..Len(s) : s[i] = "#" /\ \A j \in 1..(i - 1) : s[j] # "#"
    ELSE 0

\* urllib.parse.urldefrag(url)[0]: the URL up to its first "#".
UrlDefrag(s) == IF FirstHash(s) = 0 THEN s ELSE SubSeq(s, 1, FirstHash(s) - 1)

HasFragment(s) == FirstHash(s) # 0

\* urlparse(url).netloc: the authority that follows a "//" scheme.
AuthorityPrefix(s) ==
    LET ends == {i \in 0..Len(s) : \A j \in 1..i : s[j] \in AuthorityTokens}
    IN  SubSeq(s, 1, CHOOSE i \in ends : \A j \in ends : j <= i)

Netloc(url) ==
    IF url # << >> /\ Head(url) \in {"http://", "https://"}
    THEN AuthorityPrefix(Tail(url)) ELSE << >>

Scheme(url) == IF url # << >> /\ Head(url) \in SchemeTokens THEN Head(url) ELSE ""

\* The tokens that hold a "/": the paths and the "//" schemes.
SlashTokens ==
    { TokenOrder[i] : i \in TokRank("/")..(TokRank(":8080") - 1) }
      \cup {"http://", "https://"}

\* The tokens made of the characters a scheme may hold.
SchemeCharTokens == {"ex.com", "other.com", "top", "x"}

\* urlparse(url) raises ValueError ("Invalid IPv6 URL"): what precedes the
\* first "//" is a scheme, and the authority, which runs from the "//" to the
\* next "/" or "#", holds an unbalanced bracket.
UrlParseRaises(url) ==
    LET starts == {k \in 1..Len(url) : url[k] \in {"http://", "https://"}}
    IN  /\ starts # {}
        /\ \E k \in starts :
             /\ \A j \in 1..(k - 1) : j \notin starts /\ url[j] \in SchemeCharTokens
             /\ \E m \in (k + 1)..Len(url) :
                  /\ url[m] \in MalformedTokens
                  /\ \A j \in (k + 1)..(m - 1) :
                       url[j] \notin SlashTokens /\ url[j] # "#"

same_host_any(url, host) == TRUE

same_host(url, host) == Netloc(url) = host

StartsWithHttp(url) == url # << >> /\ Head(url) \in {"http://", "https://"}

\* re.match(r"^(mailto:|tel:|javascript:)", url, re.IGNORECASE)
MatchesNonWeb(url) == url # << >> /\ Head(url) \in {"mailto:"}

\* urldefrag parses only a string that holds a "#": normalize_url raises the
\* ValueError of urlparse for such a string, and for no other.
normalize_url_raises(raw) ==
    \E stripped \in {Strip(r) : r \in {raw}} :
      HasFragment(stripped) /\ UrlParseRaises(stripped)

\* The value normalize_url returns when it does not raise.
\* stripped and url name the values of raw.strip() and of its urldefrag.
normalize_url(raw) ==
    LET Checked(url) == IF ~StartsWithHttp(url) THEN EmptyStr
                        ELSE IF MatchesNonWeb(url) THEN EmptyStr
                        ELSE url
    IN  CHOOSE n \in { Checked(url) :
                         url \in { UrlDefrag(stripped) :
                                     stripped \in {Strip(r) : r \in {raw}} } } : TRUE

\* urljoin(base, ref) for the reference shapes of the model: an absolute
\* reference replaces the base, a fragment-only reference keeps the base
\* document, a reference starting with "/" keeps scheme and authority.
urljoin(base, ref) ==
    IF ref = << >> THEN base
    ELSE IF Head(ref) \in SchemeTokens THEN ref
    ELSE IF Head(ref) = "#" THEN UrlDefrag(base) \o ref
    ELSE <<Head(base)>> \o Netloc(base) \o ref

absolutize(base, maybe_relative) == urljoin(base, maybe_relative)

\* sorted(S) for a set of strings.
\* The i-th element of the ascending order of the set T is the one with
\* i - 1 smaller elements.
Ascending(T) ==
    LET Place(ranks) == [i \in 1..Cardinality(T) |->
                           (CHOOSE p \in ranks : p[2] = i - 1)[1]]
    IN  CHOOSE q \in {Place(ranks) :
                        ranks \in {{<<s, Cardinality({t \in T : StrLess(t, s)})>> :
                                      s \in T}}} : TRUE

Reverse(q) == [i \in 1..Len(q) |-> q[Len(q) + 1 - i]]

\* T and q name the values of S and of its ascending order.
SortedDescending(S) ==
    CHOOSE d \in {Reverse(q) : q \in {Ascending(T) : T \in {S}}} : TRUE

Sorted(S) == CHOOSE q \in {Ascending(T) : T \in {S}} : TRUE

Range(q) == {q[i] : i \in 1..Len(q)}


\* ------------------------------------------------------------------------
\* The web site the requests are made against
\* ------------------------------------------------------------------------

U(path) == <<"https://", "ex.com", path>>

Root == U("/")
PA == U("/a")
PB == U("/b")
PC == U("/c")
RootTop == <<"https://", "ex.com", "/", "#", "top">>
External == <<"https://", "other.com", "/x">>
OtherPort == <<"https://", "ex.com", ":8080", "/a">>
PlainHttp == <<"http://", "ex.com", "/a">>
MailTo == <<"mailto:", "x">>
BadAuthority == <<"https://", "[bad">>

\* A served document: the values of the "Sitemap:" lines a robots.txt parser
\* finds in it, the <loc> texts an XML parser finds in it, whether these sit
\* under <sitemap> elements, the href values of its <a> elements, and whether
\* its text is longer than 60 characters.
Doc(lines, locs, index, hrefs, long) ==
    [lines |-> lines, locs |-> locs, index |-> index, hrefs |-> hrefs,
     anchors |-> Sorted(hrefs), long |-> long]

BlankDoc == Doc({}, {}, FALSE, {}, FALSE)
Page(hrefs) == Doc({}, {}, FALSE, hrefs, TRUE)
\* An HTML page given by the hrefs of its <a> elements in document order.
OrderedPage(anchors) == [Page(Range(anchors)) EXCEPT !.anchors = anchors]
UrlSet(locs) == Doc({}, locs, FALSE, {}, TRUE)
ShortUrlSet(locs) == Doc({}, locs, FALSE, {}, FALSE)
SitemapIndex(locs) == Doc({}, locs, TRUE, {}, TRUE)
Robots(lines) == Doc(lines, {}, FALSE, {}, FALSE)

NoDocs == [u \in {} |-> BlankDoc]

\* An element of a REST collection: a dict with "link" and "guid.rendered"
\* (<< >> when absent), or a JSON value that is no dict.
Item(link, guid) == [dict |-> TRUE, link |-> link, guid |-> guid]
BadItem == [dict |-> FALSE, link |-> << >>, guid |-> << >>]

\* The answer of a REST collection; full says that the list holds as many
\* items as per_page asks for.
RestAnswer(status_ok, json, items) ==
    [status_ok |-> status_ok, json |-> json, items |-> items, full |-> FALSE]
FullPage(items) ==
    [status_ok |-> TRUE, json |-> TRUE, items |-> items, full |-> TRUE]

NoRest == [u \in {} |-> RestAnswer(FALSE, FALSE, << >>)]

LinkGraphs ==
    { NoDocs,
      Root :> Page({}),
      \* a cycle: / -> a, b;  a -> /, b;  b -> a
      (Root :> Page({<<"/a">>, <<"/b">>}))
        @@ (PA :> Page({RootTop, <<"/b">>}))
        @@ (PB :> Page({<<"/a">>})),
      \* anchors that leave the site, and a page linking to itself
      (Root :> Page({<<"/a">>, External, MailTo, OtherPort, PlainHttp,
                     <<"#", "top">>}))
        @@ (PA :> Page({<<"/a">>, <<"/b", "#", "top">>})),
      \* a chain / -> a -> b -> c
      (Root :> Page({<<"/a">>})) @@ (PA :> Page({<<"/b">>}))
        @@ (PB :> Page({<<"/c">>})) @@ (PC :> Page({})),
      \* links to pages that answer 404
      Root :> Page({<<"/a">>, <<"/b">>, <<"/c">>}) }

\* robots.txt and the sitemap documents of a site.
SitemapLayouts ==
    { NoDocs,
      (U("/robots.txt") :> Robots({}))
        @@ (U("/sitemap.xml") :> UrlSet({PA, PB}))
        @@ (U("/wp-sitemap.xml") :> ShortUrlSet({PC})),
      \* an index whose child is at no conventional path
      (U("/sitemap_index.xml") :> SitemapIndex({U("/sitemap-1.xml")}))
        @@ (U("/sitemap-1.xml") :> UrlSet({PA, PB})),
      \* a sitemap that only robots.txt names
      (U("/robots.txt") :> Robots({U("/sitemap-1.xml"), MailTo}))
        @@ (U("/sitemap-1.xml")
              :> UrlSet({PA, External, <<"https://", "ex.com", "/c", "#", "top">>})),
      \* an index whose child is at a conventional path
      (U("/sitemap_index.xml") :> SitemapIndex({U("/post-sitemap.xml")}))
        @@ (U("/post-sitemap.xml") :> UrlSet({PA})),
      \* a sitemap with a <loc> that is no URL
      U("/sitemap.xml") :> UrlSet({PA, BadAuthority}) }

RestPagesUrl == U("/wp-json/wp/v2/pages?per_page=100")
RestPostsUrl == U("/wp-json/wp/v2/posts?per_page=100")

RestLayouts ==
    { NoRest,
      (RestPagesUrl :> RestAnswer(TRUE, TRUE, <<Item(PA, << >>)>>))
        @@ (RestPostsUrl
              :> RestAnswer(TRUE, TRUE, <<Item(<< >>, PC), Item(External, << >>)>>)),
      (RestPagesUrl :> RestAnswer(TRUE, FALSE, <<Item(PA, << >>)>>))
        @@ (RestPostsUrl
              :> RestAnswer(TRUE, TRUE, <<Item(PB, << >>), BadItem, Item(PC, << >>)>>)) }

\* The second page of the pages collection and the REST index.
RestPagesUrl2 == U("/wp-json/wp/v2/pages?per_page=100&page=2")
RestIndexUrl == U("/wp-json/")

\* A site whose REST index answers and whose pages collection fills its
\* first page and has a second one.
PagedSite ==
    [docs |-> (RestIndexUrl :> BlankDoc) @@ (Root :> Page({})),
     rest |-> (RestPagesUrl :> FullPage(<<Item(PA, << >>)>>))
                @@ (RestPagesUrl2 :> RestAnswer(TRUE, TRUE, <<Item(PB, << >>)>>))]

\* The conventional entry points of a site besides its home page.
HubPaths == {"/blog", "/services"}

\* A site whose home page links to nothing, whose /blog links to /a and
\* whose /services answers 500.
HubSite ==
    [docs |-> (Root :> Page({})) @@ (U("/blog") :> Page({<<"/a">>}))
                @@ (PA :> Page({})),
     rest |-> NoRest]

\* A site whose home page has an anchor urljoin raises on between two
\* anchors to pages of the site.
BrokenAnchorSite ==
    [docs |-> (Root :> OrderedPage(<< <<"/a">>, BadAuthority, <<"/b">> >>))
                @@ (PA :> Page({})) @@ (PB :> Page({})),
     rest |-> NoRest]

SmallSites ==
    { [docs |-> g @@ s, rest |-> w] :
        g \in LinkGraphs, s \in SitemapLayouts, w \in RestLayouts }

\* Sites whose sitemap indices list themselves, or each other, as children.
SelfIndexSite ==
    [docs |-> (U("/sitemap_index.xml") :> SitemapIndex({U("/sitemap_index.xml")}))
                @@ (Root :> Page({})),
     rest |-> NoRest]

MutualIndexSite ==
    [docs |-> (U("/robots.txt") :> Robots({U("/sitemap-1.xml")}))
                @@ (U("/sitemap-1.xml") :> SitemapIndex({U("/sitemap_index.xml")}))
                @@ (U("/sitemap_index.xml")
                      :> SitemapIndex({U("/sitemap-1.xml"), PA}))
                @@ (Root :> Page({})),
     rest |-> NoRest]

IndexLoopSites == {SelfIndexSite, MutualIndexSite}

\* A site whose sitemap lists as many pages as one batch holds, two of which
\* link to one further page each.
ListedPaths == {"/a", "/b", "/c", "/d", "/e", "/f", "/g", "/h", "/i", "/j"}

WideSite ==
    [docs |-> (U("/sitemap.xml") :> UrlSet({U(p) : p \in ListedPaths}))
                @@ (PA :> Page({<<"/k">>})) @@ (PB :> Page({<<"/l">>}))
                @@ [u \in {U(p) : p \in ListedPaths} \cup {Root} |-> Page({})],
     rest |-> NoRest]


\* ------------------------------------------------------------------------
\* Bounds and program constants
\* ------------------------------------------------------------------------

\* max_pages arguments are drawn from 0..MaxPagesArg (and two large ones).
MaxPagesArg == 3
\* Fetches that fail although the site serves the URL, per request.
MaxFailures == 1
\* The depth budget a client asks for.  CrawlRequest has no field for it.
MaxDepthArg == 1

\* Requests of one URL are counted up to this number.
RequestCap == 4

BatchSize == 10
MaxPagesCap == 2000
MinPagesCap == 1

\* ------------------------------------------------------------------------
\* Helpers of src/app.py
\* ------------------------------------------------------------------------

SITEMAP_CANDIDATES ==
    { <<"/sitemap.xml">>, <<"/sitemap_index.xml">>, <<"/wp-sitemap.xml">>,
      <<"/post-sitemap.xml">>, <<"/page-sitemap.xml">>, <<"/feed/sitemap.xml">> }

WORDPRESS_REST_PAGES == <<"/wp-json/wp/v2/pages?per_page=100">>
WORDPRESS_REST_POSTS == <<"/wp-json/wp/v2/posts?per_page=100">>

\* What the HTTP client sends for a URL: the fragment stays with the client.
Resource(url) == UrlDefrag(url)

Served(s, url) == Resource(url) \in DOMAIN s.docs

\* client.get(url) followed by raise_for_status(): the served document, or an
\* error (a transport error, a timeout, an error status).
HttpGet(s, url, fails) ==
    IF fails \/ ~Served(s, url)
    THEN [ok |-> FALSE, doc |-> BlankDoc]
    ELSE [ok |-> TRUE, doc |-> s.docs[Resource(url)]]

EmptyText == [empty |-> TRUE, doc |-> BlankDoc]

\* fetch_text: the text of the response, '' on any exception.
fetch_text(resp) ==
    IF resp.ok THEN [empty |-> FALSE, doc |-> resp.doc]
    ELSE EmptyText

\* The sets of fetches that may fail in one step of request r: only fetches
\* the site would answer, and no more than the request's budget allows.
FailChoices(s, urls, used, budget) ==
    { F \in SUBSET {u \in urls : Served(s, u)} : Cardinality(F) + used <= budget }

\* The <loc>s of the model's sites are strings normalize_url does not raise
\* on.
extract_urls_from_sitemap(text) ==
    {normalize_url(loc) : loc \in text.doc.locs} \ {EmptyStr}

\* The loop over soup.find_all("a", href=True) runs in document order inside
\* one try: an href urljoin raises on ends it, and the links added before
\* are returned.
extract_links_from_html(text, base_url, h) ==
    LET a == text.doc.anchors
        bad == {i \in 1..Len(a) : UrlParseRaises(a[i])}
        stop == IF bad = {} THEN Len(a) + 1
                ELSE CHOOSE i \in bad : \A j \in bad : i <= j
    IN  { u \in {normalize_url(absolutize(base_url, a[i])) : i \in 1..(stop - 1)} :
            u # EmptyStr /\ same_host(u, h) }

\* item.get("link") or item.get("guid", {}).get("rendered")
ItemLink(item) == IF item.link # << >> THEN item.link ELSE item.guid

\* The loop over the items of one collection: the links added before the
\* first item that raises, and whether the loop ran to its end.
RestItems(items, h) ==
    LET bad == {i \in 1..Len(items) :
                  \/ ~items[i].dict
                  \/ normalize_url_raises(ItemLink(items[i]))
                  \/ UrlParseRaises(normalize_url(ItemLink(items[i])))}
        stop == IF bad = {} THEN Len(items) + 1
                ELSE CHOOSE i \in bad : \A j \in bad : i <= j
    IN  [urls |-> {u \in {normalize_url(ItemLink(items[i])) : i \in 1..(stop - 1)} :
                     u # EmptyStr /\ same_host(u, h)},
         completed |-> bad = {}]

\* One endpoint of enumerate_wordpress.
RestEndpoint(s, url, fails, h) ==
    IF fails \/ url \notin DOMAIN s.rest
    THEN [urls |-> {}, completed |-> FALSE]
    ELSE LET r == s.rest[url]
         IN  IF r.status_ok /\ r.json THEN RestItems(r.items, h)
             ELSE [urls |-> {}, completed |-> FALSE]

\* The orders in which a Python set may be iterated: the model draws them
\* from the rotations of the ascending and of the descending order (every
\* order, for a set of up to three elements).
Rotate(q, k) == SubSeq(q, k + 1, Len(q)) \o SubSeq(q, 1, k)

SetOrders(S) ==
    UNION { { << >> : x \in {T} \cap {{}} }
              \cup UNION { {Rotate(q, k) : k \in 0..(Len(q) - 1)} :
                            q \in {Sorted(T), SortedDescending(T)} } :
            T \in {S} }

\* The count of GET requests per URL after one more request of each URL of
\* urls; the count is kept up to RequestCap.
Requested(log, urls) ==
    [u \in DOMAIN log \cup urls |->
       IF u \notin urls THEN log[u]
       ELSE IF u \notin DOMAIN log THEN 1
       ELSE IF log[u] < RequestCap THEN log[u] + 1
       ELSE log[u]]

RestSitemapsKeep(sms, sm) == sms

\* "for sm in sitemaps" moves on: sm is not iterated over again.
RestSitemaps(sms, sm) == sms \ {sm}

\* to_visit.pop(0)
PopKeep(q) == q

Pop(q) == Tail(q)

EnqueueFront(q, nl) == <<nl>> \o q

\* to_visit.append(nl)
Enqueue(q, nl) == Append(q, nl)

LoopCondNoCap(tv, disc, maxp) == tv # << >>

\* while to_visit and len(discovered) < max_pages
LoopCond(tv, disc, maxp) == tv # << >> /\ Cardinality(disc) < maxp

\* for nl in new_links: ... discovered.add(nl); to_visit.append(nl)
\* The body of "for nl in new_links" (lines 226-229).
AddLink(nl, h, maxp, st) ==
    IF nl \notin st.discovered /\ same_host(nl, h)
    THEN [discovered |-> st.discovered \cup {nl},
          to_visit |-> IF Cardinality(st.discovered \cup {nl}) < maxp
                       THEN Enqueue(st.to_visit, nl)
                       ELSE st.to_visit]
    ELSE st

\* for nl in new_links, iterated in the given order.
AddLinks(order, h, maxp, st) ==
    LET after[i \in 0..Len(order)] ==
            IF i = 0 THEN {st}
            ELSE {AddLink(order[i], h, maxp, prev) : prev \in after[i - 1]}
    IN  CHOOSE end \in after[Len(order)] : TRUE

\* One turn of "for page_url, text in results": the states it can end in.
ProcessOne(result, h, maxp, st) ==
    IF result.text.empty THEN {st}
    ELSE { AddLinks(order, h, maxp, st) :
             order \in SetOrders(extract_links_from_html(result.text, result.url, h)) }

\* for page_url, text in results: the states the loop can end in.
ProcessAll(res, h, maxp, st) ==
    LET after[i \in 0..Len(res)] ==
            IF i = 0 THEN {st}
            ELSE UNION {ProcessOne(res[i], h, maxp, prev) : prev \in after[i - 1]}
    IN  after[Len(res)]

\* The depths after one "for page_url, text in results": a link enqueued is
\* one hop further from a seed than the page it was first found on.
Deeper(dep, res, h, enqueued) ==
    LET found(i) == IF res[i].text.empty THEN {}
                    ELSE extract_links_from_html(res[i].text, res[i].url, h)
        first(nl) == CHOOSE i \in 1..Len(res) :
                       /\ nl \in found(i)
                       /\ \A j \in 1..(i - 1) : nl \notin found(j)
    IN  [u \in DOMAIN dep \cup enqueued |->
           IF u \in DOMAIN dep THEN dep[u] ELSE dep[res[first(u)].url] + 1]

SortedReversed(S) == SortedDescending(S)

final_links(disc) == Sorted(disc)

ClampMaxPages(n) ==
    LET m == IF n < MaxPagesCap THEN n ELSE MaxPagesCap
    IN  IF m > MinPagesCap THEN m ELSE MinPagesCap

\* pydantic's HttpUrl: an http or https URL with a host.
ValidHttpUrl(url) == StartsWithHttp(url) /\ Netloc(url) # << >>

CrawlResult(u, n, ls) == [url |-> u, link_count |-> n, links |-> ls]


\* ------------------------------------------------------------------------
\* State
\* ------------------------------------------------------------------------

Req == {"r1", "r2"}

NoRequest == [start_url |-> << >>, max_pages |-> 0, none |-> TRUE]
Request(u, n) == [start_url |-> u, max_pages |-> n, none |-> FALSE]
NoResponse == [url |-> << >>, link_count |-> -1, links |-> << >>]

\* How a call of normalize_url ended: by raising, or with a value.
NoOutcome == [called |-> FALSE, raised |-> FALSE, value |-> << >>]
Outcome(arg) ==
    IF normalize_url_raises(arg)
    THEN [called |-> TRUE, raised |-> TRUE, value |-> << >>]
    ELSE [called |-> TRUE, raised |-> FALSE, value |-> normalize_url(arg)]

VARIABLES
    site,          \* the documents and REST collections the web serves
    fault_budget,  \* how many fetches of one request the network may fail
    pending,       \* per client, the POST /crawl_site body not yet received
    pc,            \* per request, the position of crawl_site
    start,         \* str(req.start_url)
    host,          \* parsed.netloc
    max_pages,     \* the clamped max_pages
    sitemaps,      \* the sitemaps of discover_sitemaps not yet iterated over
    discovered, to_visit, visited, batch,
    results,       \* what asyncio.gather returned for the batch
    response,      \* the CrawlResult returned
    failures,      \* history: fetches of the request that were made to fail
    crawled,       \* history: the URLs put into a batch, in order
    ok_sources,    \* history: the fetches that answered, by strategy
    requests,      \* history: how often each URL was requested (GET)
    depth,         \* history: the link hops from a seed to each URL enqueued
    raw,           \* a string handed to normalize_url
    once,          \* the outcome of normalize_url(raw)
    twice          \* the outcome of normalize_url on the value of once

\* The variables of the calls of normalize_url on its own.
norm_vars == << raw, once, twice >>

vars == << site, fault_budget, pending, pc, start, host, max_pages, sitemaps,
           discovered, to_visit, visited, batch, results, response, failures,
           crawled, ok_sources, requests, depth, norm_vars >>

local_vars == << start, host, max_pages, sitemaps, discovered, to_visit,
                 visited, batch, results, response, failures, crawled,
                 ok_sources, requests, depth >>

StartInputs == {Root, RootTop, MailTo}

MaxPagesInputs == (0..MaxPagesArg) \cup {BatchSize + 2, MaxPagesCap + 1}

Inputs == {Request(u, n) : u \in StartInputs, n \in MaxPagesInputs}

InitLocal ==
    /\ pc = [r \in Req |-> "idle"]
    /\ start = [r \in Req |-> << >>]
    /\ host = [r \in Req |-> << >>]
    /\ max_pages = [r \in Req |-> 0]
    /\ sitemaps = [r \in Req |-> {}]
    /\ discovered = [r \in Req |-> {}]
    /\ to_visit = [r \in Req |-> << >>]
    /\ visited = [r \in Req |-> {}]
    /\ batch = [r \in Req |-> << >>]
    /\ results = [r \in Req |-> << >>]
    /\ response = [r \in Req |-> NoResponse]
    /\ failures = [r \in Req |-> 0]
    /\ crawled = [r \in Req |-> << >>]
    /\ ok_sources = [r \in Req |-> {}]
    /\ requests = [r \in Req |-> << >>]
    /\ depth = [r \in Req |-> << >>]

InitNoCall ==
    /\ raw = << >>
    /\ once = NoOutcome
    /\ twice = NoOutcome

SharedOwner(r) == "r1"

\* discovered, to_visit and visited are locals of the call (lines 184-186):
\* the call r works on its own.
Owner(r) == r

\* One client posts one request.
Init ==
    /\ site \in SmallSites \cup IndexLoopSites \cup {WideSite, PagedSite, HubSite, BrokenAnchorSite}
    /\ fault_budget = MaxFailures
    /\ pending \in {[r \in Req |-> IF r = "r1" THEN i ELSE NoRequest] : i \in Inputs}
    /\ InitLocal
    /\ InitNoCall

\* ------------------------------------------------------------------------
\* crawl_site, step by step
\* ------------------------------------------------------------------------

\* An exception leaves crawl_site: the request ends in an error response.
Fault(r) ==
    /\ pc' = [pc EXCEPT ![r] = "fault"]
    /\ UNCHANGED << norm_vars, site, fault_budget, pending >>
    /\ UNCHANGED local_vars

\* Request validation and lines 176-190.
Receive(r) ==
    /\ pc[r] = "idle"
    /\ ~pending[r].none
    /\ pending' = [pending EXCEPT ![r] = NoRequest]
    /\ IF ValidHttpUrl(pending[r].start_url)
          /\ Scheme(pending[r].start_url) \in {"http://", "https://"}
       THEN /\ start' = [start EXCEPT ![r] = pending[r].start_url]
            /\ host' = [host EXCEPT ![r] = Netloc(pending[r].start_url)]
            /\ max_pages' = [max_pages EXCEPT ![r] = ClampMaxPages(pending[r].max_pages)]
            /\ discovered' = [discovered EXCEPT ![r] = {pending[r].start_url}]
            /\ pc' = [pc EXCEPT ![r] = "discover"]
       ELSE /\ pc' = [pc EXCEPT ![r] = "rejected"]
            /\ UNCHANGED << start, host, max_pages, discovered >>
    /\ UNCHANGED << depth, norm_vars, requests, site, fault_budget, sitemaps, to_visit, visited, batch,
                    results, response, failures, crawled, ok_sources >>

\* discover_sitemaps(client, start).  normalize_url is called on the
\* "Sitemap:" lines outside any try.
DiscoverSitemaps(r) ==
    /\ pc[r] = "discover"
    /\ LET robots_url == urljoin(start[r], <<"/robots.txt">>)
           candidates == {urljoin(start[r], path) : path \in SITEMAP_CANDIDATES}
       IN  \E F \in FailChoices(site, {robots_url} \cup candidates,
                                failures[r], fault_budget) :
             LET text(u) == fetch_text(HttpGet(site, u, u \in F))
                 from_robots ==
                     {normalize_url(v) : v \in text(robots_url).doc.lines}
                       \ {EmptyStr}
                 from_paths ==
                     {u \in candidates : ~text(u).empty /\ text(u).doc.long}
             IN  IF \E v \in text(robots_url).doc.lines : normalize_url_raises(v)
                 THEN Fault(r)
                 ELSE /\ sitemaps' = [sitemaps EXCEPT ![r] = from_robots \cup from_paths]
                      /\ failures' = [failures EXCEPT ![r] = @ + Cardinality(F)]
                      /\ requests' = [requests EXCEPT
                                        ![r] = Requested(@, {robots_url} \cup candidates)]
                      /\ pc' = [pc EXCEPT ![r] = "sitemaps"]
                      /\ UNCHANGED << depth, norm_vars, site, fault_budget, pending, start,
                                      host, max_pages, discovered, to_visit, visited,
                                      batch, results, response, crawled, ok_sources >>

\* One turn of "for sm in sitemaps" (lines 194-197).  same_host is called
\* outside any try: a <loc> urlparse rejects ends the request in an error.
FetchSitemap(r) ==
    /\ pc[r] = "sitemaps"
    /\ \E sm \in sitemaps[r] :
         \E F \in FailChoices(site, {sm}, failures[r], fault_budget) :
           LET xml_text == fetch_text(HttpGet(site, sm, sm \in F))
           IN  IF /\ ~xml_text.empty
                  /\ \E u \in extract_urls_from_sitemap(xml_text) : UrlParseRaises(u)
               THEN Fault(r)
               ELSE /\ sitemaps' = [sitemaps EXCEPT ![r] = RestSitemaps(@, sm)]
                    /\ failures' = [failures EXCEPT ![r] = @ + Cardinality(F)]
                    /\ requests' = [requests EXCEPT ![r] = Requested(@, {sm})]
                    /\ discovered' =
                         [discovered EXCEPT ![r] =
                            IF xml_text.empty THEN @
                            ELSE @ \cup {u \in extract_urls_from_sitemap(xml_text) :
                                           same_host(u, host[r])}]
                    /\ ok_sources' =
                         [ok_sources EXCEPT ![r] =
                            IF xml_text.empty THEN @
                            ELSE @ \cup {[kind |-> "sitemap", url |-> sm]}]
                    /\ UNCHANGED << depth, norm_vars, site, fault_budget, pending, pc,
                                    start, host, max_pages, to_visit, visited,
                                    batch, results, response, crawled >>

\* enumerate_wordpress(client, start, host) and line 200.
EnumerateWordpress(r) ==
    /\ pc[r] = "sitemaps"
    /\ sitemaps[r] = {}
    /\ LET pages_url == urljoin(start[r], WORDPRESS_REST_PAGES)
           posts_url == urljoin(start[r], WORDPRESS_REST_POSTS)
       IN  \E F \in { G \in SUBSET ({pages_url, posts_url} \cap DOMAIN site.rest) :
                        Cardinality(G) + failures[r] <= fault_budget } :
             LET pages == RestEndpoint(site, pages_url, pages_url \in F, host[r])
                 posts == RestEndpoint(site, posts_url, posts_url \in F, host[r])
             IN  /\ discovered' = [discovered EXCEPT ![r] = @ \cup pages.urls \cup posts.urls]
                 /\ failures' = [failures EXCEPT ![r] = @ + Cardinality(F)]
                 /\ requests' = [requests EXCEPT
                                   ![r] = Requested(@, {pages_url, posts_url})]
                 /\ ok_sources' =
                      [ok_sources EXCEPT ![r] =
                         @ \cup {[kind |-> "rest", url |-> u] :
                                   u \in {v \in {pages_url} : pages.completed}
                                         \cup {v \in {posts_url} : posts.completed}}]
                 /\ pc' = [pc EXCEPT ![r] = "seed"]
    /\ UNCHANGED << depth, norm_vars, site, fault_budget, pending, start, host,
                    max_pages, sitemaps, to_visit, visited, batch, results,
                    response, crawled >>

\* to_visit = [u for u in discovered if same_host(u, host)]
Seed(r) ==
    /\ pc[r] = "seed"
    /\ \E order \in SetOrders({u \in discovered[r] : same_host(u, host[r])}) :
         /\ to_visit' = [to_visit EXCEPT ![r] = order]
         /\ depth' = [depth EXCEPT ![r] = [u \in Range(order) |-> 0]]
    /\ pc' = [pc EXCEPT ![r] = "loop"]
    /\ UNCHANGED << norm_vars, requests, site, fault_budget, pending, start, host, max_pages, sitemaps,
                    discovered, visited, batch, results, response, failures,
                    crawled, ok_sources >>

\* The test of the outer while (line 206) and batch = [].
LoopTest(r) ==
    /\ pc[r] = "loop"
    /\ IF LoopCond(to_visit[r], discovered[r], max_pages[r])
       THEN /\ batch' = [batch EXCEPT ![r] = << >>]
            /\ pc' = [pc EXCEPT ![r] = "drain"]
       ELSE /\ pc' = [pc EXCEPT ![r] = "return"]
            /\ UNCHANGED batch
    /\ UNCHANGED << depth, norm_vars, requests, site, fault_budget, pending, start, host, max_pages, sitemaps,
                    discovered, to_visit, visited, results, response, failures,
                    crawled, ok_sources >>

\* One turn of the inner while (lines 208-213), or its exit (lines 215-216).
Drain(r) ==
    /\ pc[r] = "drain"
    /\ IF to_visit[r] # << >> /\ Len(batch[r]) < BatchSize
       THEN LET url == Head(to_visit[r])
            IN  /\ to_visit' = [to_visit EXCEPT ![r] = Pop(@)]
                /\ IF url \in visited[Owner(r)]
                   THEN UNCHANGED << visited, batch, crawled >>
                   ELSE /\ visited' = [visited EXCEPT ![Owner(r)] = @ \cup {url}]
                        /\ batch' = [batch EXCEPT ![r] = Append(@, url)]
                        /\ crawled' = [crawled EXCEPT ![r] = Append(@, url)]
                /\ UNCHANGED pc
       ELSE /\ pc' = [pc EXCEPT ![r] = IF batch[r] = << >> THEN "return" ELSE "gather"]
            /\ UNCHANGED << to_visit, visited, batch, crawled >>
    /\ UNCHANGED << depth, norm_vars, requests, site, fault_budget, pending, start, host, max_pages, sitemaps,
                    discovered, results, response, failures, ok_sources >>

\* results = await asyncio.gather(*[fetch_text(client, u) for u in batch])
Gather(r) ==
    /\ pc[r] = "gather"
    /\ \E F \in FailChoices(site, Range(batch[r]), failures[r], fault_budget) :
         LET res == [i \in 1..Len(batch[r]) |->
                       [url |-> batch[r][i],
                        text |-> fetch_text(HttpGet(site, batch[r][i], batch[r][i] \in F))]]
         IN  /\ results' = [results EXCEPT ![r] = res]
             /\ failures' = [failures EXCEPT ![r] = @ + Cardinality(F)]
             /\ requests' = [requests EXCEPT ![r] = Requested(@, Range(batch[r]))]
             /\ ok_sources' =
                  [ok_sources EXCEPT ![r] =
                     @ \cup {[kind |-> "page", url |-> res[i].url] :
                               i \in {j \in 1..Len(res) : ~res[j].text.empty}}]
             /\ pc' = [pc EXCEPT ![r] = "process"]
             /\ UNCHANGED << depth, norm_vars, site, fault_budget, pending, start, host,
                             max_pages, sitemaps, discovered, to_visit,
                             visited, batch, response, crawled >>

\* for page_url, text in results: ... (lines 221-229)
ProcessResults(r) ==
    /\ pc[r] = "process"
    /\ \E st \in ProcessAll(results[r], host[r], max_pages[r],
                            [discovered |-> discovered[r], to_visit |-> to_visit[r]]) :
         /\ discovered' = [discovered EXCEPT ![r] = st.discovered]
         /\ to_visit' = [to_visit EXCEPT ![r] = st.to_visit]
         /\ depth' = [depth EXCEPT
                        ![r] = Deeper(@, results[r], host[r],
                                      Range(st.to_visit) \ Range(to_visit[r]))]
    /\ results' = [results EXCEPT ![r] = << >>]
    /\ pc' = [pc EXCEPT ![r] = "loop"]
    /\ UNCHANGED << norm_vars, requests, site, fault_budget, pending, start, host, max_pages, sitemaps,
                    visited, batch, response, failures, crawled, ok_sources >>

\* Lines 231-232.
Return(r) ==
    /\ pc[r] = "return"
    /\ \E links \in {final_links(discovered[r])} :
         response' = [response EXCEPT ![r] = CrawlResult(start[r], Len(links), links)]
    /\ pc' = [pc EXCEPT ![r] = "done"]
    /\ UNCHANGED << depth, norm_vars, requests, site, fault_budget, pending, start, host, max_pages, sitemaps,
                    discovered, to_visit, visited, batch, results, failures,
                    crawled, ok_sources >>

Step(r) ==
    \/ Receive(r)
    \/ DiscoverSitemaps(r)
    \/ FetchSitemap(r)
    \/ EnumerateWordpress(r)
    \/ Seed(r)
    \/ LoopTest(r)
    \/ Drain(r)
    \/ Gather(r)
    \/ ProcessResults(r)
    \/ Return(r)

Next == \E r \in Req : Step(r)

Spec == Init /\ [][Next]_vars

\* The sites whose pages link to one another: a cycle, a page that links to
\* itself, a chain.
LinkedSites == { s \in SmallSites : PA \in DOMAIN s.docs }

LinkedInputs ==
    {Request(u, n) : u \in {Root, MailTo}, n \in (1..MaxPagesArg) \cup {BatchSize + 2}}

InitLinked ==
    /\ site \in LinkedSites \cup IndexLoopSites
    /\ fault_budget = MaxFailures
    /\ pending \in {[r \in Req |-> IF r = "r1" THEN i ELSE NoRequest] : i \in LinkedInputs}
    /\ InitLocal
    /\ InitNoCall

\* Every fetch completes, and the event loop runs a request that can run.
FairSpec == InitLinked /\ [][Next]_vars /\ \A r \in Req : WF_vars(Step(r))


\* Two clients post a request each; the network fails no fetch.
PairSites == {WideSite}

PairInputs == {Request(Root, BatchSize + 2), Request(Root, MinPagesCap)}

InitPair ==
    /\ site \in PairSites
    /\ fault_budget = 0
    /\ pending \in [Req -> PairInputs]
    /\ InitLocal
    /\ InitNoCall

PairSpec == InitPair /\ [][Next]_vars

\* Two clients post a request each to a site that has sitemaps, a REST API
\* and pages linking to one another; the network fails no fetch.
IsoSites ==
    { s \in SmallSites :
        /\ {PA, PB, U("/robots.txt")} \subseteq DOMAIN s.docs
        /\ s.rest # NoRest }

IsoInputs == {Request(Root, MaxPagesArg), Request(Root, BatchSize + 2)}

InitIso ==
    /\ site \in IsoSites
    /\ fault_budget = 0
    /\ pending \in [Req -> IsoInputs]
    /\ InitLocal
    /\ InitNoCall

IsoSpec == InitIso /\ [][Next]_vars

\* crawl_site run from its first line to its last with no other call in
\* between and no fetch failing.

\* The inner while (lines 208-213), run to its end.
DrainAll(tv, vis) ==
    LET after[i \in 0..Len(tv)] ==
            IF i = 0 THEN [batch |-> << >>, visited |-> vis, popped |-> 0]
            ELSE LET p == after[i - 1]
                 IN  IF Len(p.batch) >= BatchSize THEN p
                     ELSE IF tv[i] \in p.visited THEN [p EXCEPT !.popped = i]
                     ELSE [batch |-> Append(p.batch, tv[i]),
                           visited |-> p.visited \cup {tv[i]},
                           popped |-> i]
        end == after[Len(tv)]
    IN  [batch |-> end.batch, visited |-> end.visited,
         to_visit |-> SubSeq(tv, end.popped + 1, Len(tv))]

\* The outer while (lines 206-229), run to its end: the sets discovered can
\* end as.
RECURSIVE CrawlLoop(_, _, _, _, _, _)
CrawlLoop(s, h, maxp, tv, disc, vis) ==
    IF ~LoopCond(tv, disc, maxp) THEN {disc}
    ELSE LET d == DrainAll(tv, vis)
             res == [i \in 1..Len(d.batch) |->
                       [url |-> d.batch[i],
                        text |-> fetch_text(HttpGet(s, d.batch[i], FALSE))]]
         IN  IF d.batch = << >> THEN {disc}
             ELSE UNION { CrawlLoop(s, h, maxp, st.to_visit, st.discovered, d.visited) :
                            st \in ProcessAll(res, h, maxp,
                                              [discovered |-> disc, to_visit |-> d.to_visit]) }

\* The link lists crawl_site can return for a start URL and a clamped
\* max_pages.
AloneLinks(s, st_url, maxp) ==
    LET h == Netloc(st_url)
        text(u) == fetch_text(HttpGet(s, u, FALSE))
        robots_url == urljoin(st_url, <<"/robots.txt">>)
        candidates == {urljoin(st_url, path) : path \in SITEMAP_CANDIDATES}
        sms == ({normalize_url(v) : v \in text(robots_url).doc.lines} \ {EmptyStr})
                 \cup {u \in candidates : ~text(u).empty /\ text(u).doc.long}
        from_sitemaps ==
            UNION { IF text(sm).empty THEN {}
                    ELSE {u \in extract_urls_from_sitemap(text(sm)) : same_host(u, h)} :
                    sm \in sms }
        from_rest ==
            RestEndpoint(s, urljoin(st_url, WORDPRESS_REST_PAGES), FALSE, h).urls
              \cup RestEndpoint(s, urljoin(st_url, WORDPRESS_REST_POSTS), FALSE, h).urls
        seeded == {st_url} \cup from_sitemaps \cup from_rest
    IN  { final_links(d) :
            d \in UNION { CrawlLoop(s, h, maxp, order, seeded, {}) :
                            order \in SetOrders({u \in seeded : same_host(u, h)}) } }

\* normalize_url on its own: called on a string, then on what it returned.
MaxLen == 3

NormTokens == {" ", "#", "https://", "mailto:", "ex.com", "[bad", "/a"}

Strings(n) == UNION { [1..k -> NormTokens] : k \in 0..n }

crawl_vars == << site, fault_budget, pending, pc, local_vars >>

InitNorm ==
    /\ raw \in Strings(MaxLen)
    /\ once = NoOutcome
    /\ twice = NoOutcome
    /\ site = [docs |-> NoDocs, rest |-> NoRest]
    /\ fault_budget = 0
    /\ pending = [r \in Req |-> NoRequest]
    /\ InitLocal

Normalize ==
    /\ ~once.called
    /\ once' = Outcome(raw)
    /\ UNCHANGED << raw, twice, crawl_vars >>

NormalizeAgain ==
    /\ once.called
    /\ ~once.raised
    /\ ~twice.called
    /\ twice' = Outcome(once.value)
    /\ UNCHANGED << raw, once, crawl_vars >>

NextNorm == Normalize \/ NormalizeAgain

NormSpec == InitNorm /\ [][NextNorm]_vars

\* ------------------------------------------------------------------------
\* Properties
\* ------------------------------------------------------------------------

Done(r) == pc[r] = "done"

Links(r) == response[r].links

\* What a fetch that answered contributes to the result.
Contribution(src, r) ==
    IF src.kind = "sitemap"
    THEN {u \in {normalize_url(l) : l \in site.docs[Resource(src.url)].locs} :
            u # EmptyStr /\ Netloc(u) = host[r]}
    ELSE IF src.kind = "rest"
    THEN {u \in {normalize_url(ItemLink(site.rest[src.url].items[i])) :
                   i \in 1..Len(site.rest[src.url].items)} :
            u # EmptyStr /\ Netloc(u) = host[r]}
    ELSE {u \in {normalize_url(urljoin(src.url, h)) :
                   h \in site.docs[Resource(src.url)].hrefs} :
            u # EmptyStr /\ Netloc(u) = host[r]}

\* C1: the links list returned by crawl_site has at most max_pages elements.
C1_CapRespected ==
    \A r \in Req : Done(r) => Len(Links(r)) <= max_pages[r]

\* C2: every discovered URL, and every returned link, has the authority of
\* the start URL.
C2_HostFilter ==
    \A r \in Req :
      /\ \A u \in discovered[r] : Netloc(u) = Netloc(start[r])
      /\ \A i \in 1..Len(Links(r)) : Netloc(Links(r)[i]) = Netloc(start[r])

\* A request has returned after fetching a page that carries an anchor, and
\* a sitemap or REST collection that carries an entry, of another authority.
C2_Witness ==
    \E r \in Req :
      /\ Done(r)
      /\ \E src \in ok_sources[r] :
           /\ src.kind = "page"
           /\ \E h \in site.docs[Resource(src.url)].hrefs :
                /\ StartsWithHttp(h)
                /\ Netloc(h) # host[r]
      /\ \E src \in ok_sources[r] :
           /\ src.kind = "sitemap"
           /\ External \in site.docs[Resource(src.url)].locs

\* C3: with max_pages = 1 the result is exactly the start URL.
C3_SinglePage ==
    \A r \in Req :
      (Done(r) /\ max_pages[r] = 1)
        => (Links(r) = <<start[r]>> /\ response[r].link_count = 1)

\* C4: when the cap is not reached, the page URLs of every child sitemap a
\* fetched sitemap index lists are in the result; for https://ex.com/ with a sitemap_index.xml listing one
\* child of two pages, no REST API and no links, the result is the start URL
\* and the two pages, link_count = 3.
C4_IndexExpanded ==
    \A r \in Req :
      (Done(r) /\ failures[r] = 0 /\ Cardinality(discovered[r]) < max_pages[r]) =>
        /\ \A src \in ok_sources[r] :
             (src.kind = "sitemap" /\ site.docs[Resource(src.url)].index) =>
               \A child \in site.docs[Resource(src.url)].locs :
                 Served(site, child) =>
                   Contribution([kind |-> "sitemap", url |-> child], r)
                     \subseteq Range(Links(r))
        /\ ( /\ start[r] = Root
             /\ site = [docs |-> (U("/sitemap_index.xml")
                                    :> SitemapIndex({U("/sitemap-1.xml")}))
                                  @@ (U("/sitemap-1.xml") :> UrlSet({PA, PB})),
                        rest |-> NoRest]
             /\ max_pages[r] >= 3 )
           => (Links(r) = <<Root, PA, PB>> /\ response[r].link_count = 3)

Ended(r) == pc[r] \in {"done", "rejected", "fault"}

\* C5: every request that is received ends, and every request that reaches
\* the crawl loop leaves it and returns a result, on cyclic link graphs and
\* under every pattern of fetch failures.
C5_Terminates ==
    \A r \in Req :
      /\ (~pending[r].none) ~> Ended(r)
      /\ (pc[r] = "seed") ~> Done(r)

PageLinks(u, h) ==
    IF Served(site, u)
    THEN extract_links_from_html(fetch_text(HttpGet(site, u, FALSE)), u, h)
    ELSE {}

\* A request has returned after crawling two pages that link to each other
\* and a page that links to itself.
C5_Witness ==
    \E r \in Req :
      /\ Done(r)
      /\ \/ \E u, v \in visited[r] :
              /\ u # v
              /\ v \in PageLinks(u, host[r])
              /\ u \in PageLinks(v, host[r])
         \/ \E u \in visited[r] : u \in PageLinks(u, host[r])

NoDuplicates(q) == \A i, j \in 1..Len(q) : q[i] = q[j] => i = j

\* C6: a URL is visited from the moment it is dequeued into a batch, no URL
\* is put into a batch twice, and the crawl fetches at most max_pages URLs.
C6_SingleVisit ==
    \A r \in Req :
      /\ NoDuplicates(crawled[r])
      /\ Range(crawled[r]) = visited[r]
      /\ Range(batch[r]) \subseteq visited[r]
      /\ Len(crawled[r]) <= max_pages[r]

\* The drain stopped at a full batch with URLs left in the frontier.
C6_Witness ==
    \E r \in Req :
      /\ pc[r] = "gather"
      /\ Len(batch[r]) = BatchSize
      /\ to_visit[r] # << >>

\* C7: whatever fetches fail and whatever the site serves, crawl_site ends
\* in no error: it returns the start URL and every URL of the sources that
\* answered.
C7_FailureIsolation ==
    \A r \in Req :
      /\ pc[r] # "fault"
      /\ Done(r) =>
           /\ start[r] \in Range(Links(r))
           /\ \A src \in ok_sources[r] : Contribution(src, r) \subseteq Range(Links(r))

\* C8: two requests with the same start URL and max_pages, against the same
\* responses, return the same links.
C8_Deterministic ==
    ( /\ Done("r1") /\ Done("r2")
      /\ start["r1"] = start["r2"]
      /\ max_pages["r1"] = max_pages["r2"]
      /\ failures["r1"] = 0 /\ failures["r2"] = 0 )
      => response["r1"] = response["r2"]

\* C9: every returned link is an http(s) URL without a fragment.
C9_Normalized ==
    \A r \in Req :
      Done(r) => \A i \in 1..Len(Links(r)) :
                   StartsWithHttp(Links(r)[i]) /\ ~HasFragment(Links(r)[i])

\* C10: the returned links ascend strictly in lexicographic order (so none
\* repeats) and link_count is their number.
C10_SortedUnique ==
    \A r \in Req :
      Done(r) =>
        /\ \A i, j \in 1..Len(Links(r)) : i < j => StrLess(Links(r)[i], Links(r)[j])
        /\ response[r].link_count = Len(Links(r))
        /\ Range(Links(r)) = discovered[r]

\* A request has returned at least three links.
C10_Witness == \E r \in Req : Done(r) /\ Len(Links(r)) >= 3

\* C11: normalize_url is idempotent: called on the value it returned, it
\* returns that value again.
C11_Idempotent ==
    twice.called => (~twice.raised /\ twice.value = once.value)

\* C12: normalize_url never raises, and returns the empty string or an
\* http(s) URL without a fragment and without a mailto: scheme.
C12_OutputShape ==
    once.called =>
      /\ ~once.raised
      /\ \/ once.value = EmptyStr
         \/ /\ StartsWithHttp(once.value)
            /\ ~HasFragment(once.value)
            /\ ~MatchesNonWeb(once.value)

\* C13: the sitemap phase of every request ends, also when a sitemap index
\* lists itself or two indices list each other, and no URL is requested
\* more than three times (by discover_sitemaps, by the sitemap loop and by
\* the crawl).
C13_SitemapsTerminate ==
    \A r \in Req :
      /\ [](\A u \in DOMAIN requests[r] : requests[r][u] <= 3)
      /\ (pc[r] = "discover") ~> (pc[r] \in {"seed", "fault"})

\* The sitemap phase has ended after fetching an index that lists itself,
\* or an index and the child that lists it back.
C13_Witness ==
    \E r \in Req :
      /\ pc[r] = "seed"
      /\ \E a, b \in ok_sources[r] :
           /\ a.kind = "sitemap" /\ b.kind = "sitemap"
           /\ site.docs[Resource(a.url)].index
           /\ site.docs[Resource(b.url)].index
           /\ b.url \in site.docs[Resource(a.url)].locs
           /\ a.url \in site.docs[Resource(b.url)].locs

\* C14: a fetch that fails once is attempted again: when no more than one
\* fetch of a request failed, every crawled URL the site serves has
\* contributed its links to the result.
C14_Retried ==
    \A r \in Req :
      (Done(r) /\ failures[r] <= 1) =>
        \A u \in Range(crawled[r]) :
          Served(site, u) => PageLinks(u, host[r]) \subseteq Range(Links(r))

\* C15: when a page of a REST collection answered with a full list, the next
\* page is requested, and the links of its items are in the result.
C15_Paginated ==
    \A r \in Req :
      (Done(r) /\ failures[r] = 0 /\ start[r] = Root /\ site = PagedSite) =>
        /\ RestPagesUrl2 \in DOMAIN requests[r]
        /\ PB \in Range(Links(r))

\* C16: the REST index is requested first, and when it does not answer, the
\* pages and posts collections are not requested.
C16_ProbeFirst ==
    \A r \in Req :
      (pc[r] \in {"seed", "done"} /\ host[r] = Netloc(Root)) =>
        /\ RestIndexUrl \in DOMAIN requests[r]
        /\ ~Served(site, RestIndexUrl) =>
             (requests[r] # << >> /\ {RestPagesUrl, RestPostsUrl} \cap DOMAIN requests[r] = {})

\* The depths of the URLs a request fetched, in the order it dequeued them.
Depths(r) == [i \in 1..Len(crawled[r]) |-> depth[r][crawled[r][i]]]

\* C17: the URLs are dequeued in the order they were enqueued, so that the
\* depths of the URLs fetched never decrease from one fetch to the next.
C17_BreadthFirst ==
    \A r \in Req :
      \A i, j \in 1..Len(crawled[r]) : i < j => Depths(r)[i] <= Depths(r)[j]

\* A request has returned after its frontier held a seed left over from the
\* first batch together with a link found in that batch, and it fetched
\* the seed first.
C17_Witness ==
    \E r \in Req :
      /\ Done(r)
      /\ \E i, j \in 1..Len(crawled[r]) :
           /\ BatchSize < i /\ i < j
           /\ Depths(r)[i] = 0
           /\ Depths(r)[j] = 1

\* C18: no URL is fetched that is more link hops away from a seed than the
\* depth budget of the request allows.
C18_DepthBudget ==
    \A r \in Req :
      \A i \in 1..Len(crawled[r]) : Depths(r)[i] <= MaxDepthArg

\* The frontier, the visited set and the discovered set of a request.
Owned(r) == << to_visit[r], visited[r], discovered[r] >>

\* C19: a step of one request leaves the frontier, the visited set and the
\* discovered set of every other request as they were, and the links a
\* request returns are links it can return when no other request runs.
C19_Isolated ==
    [][\A r \in Req :
         Step(r) =>
           /\ \A o \in Req \ {r} : Owned(o)' = Owned(o)
           /\ pc'[r] = "done" =>
                response'[r].links \in AloneLinks(site, start[r], max_pages[r])]_vars

\* Two requests are both waiting for the fetches of a batch, one of them
\* of a later batch than the other.
C19_Witness ==
    /\ \A r \in Req : pc[r] = "gather" /\ batch[r] # << >>
    /\ Len(crawled["r1"]) > Len(batch["r1"])
    /\ Len(crawled["r2"]) = Len(batch["r2"])

\* C20: before the crawl the hub paths are fetched, and the same-host links
\* of a hub page that answered are in the result although another hub path
\* answered 500.
C20_HubsScraped ==
    \A r \in Req :
      (Done(r) /\ failures[r] = 0 /\ start[r] = Root /\ site = HubSite
         /\ max_pages[r] > BatchSize) =>
        /\ \A p \in HubPaths : U(p) \in DOMAIN requests[r]
        /\ PageLinks(U("/blog"), host[r]) \subseteq Range(Links(r))

\* The URLs the crawl loop fetched once, and no more often.
FetchedOnce(r) ==
    {u \in Range(crawled[r]) :
       Cardinality({i \in 1..Len(crawled[r]) : crawled[r][i] = u}) = 1}

\* C21: at every step the frontier and the visited set lie within the
\* discovered set; and when a request returns fewer than max_pages links,
\* the crawl loop fetched each of them exactly once and every same-host
\* normalized anchor of every page that answered is among them.
C21_Closure ==
    \A r \in Req :
      /\ Range(to_visit[r]) \cup visited[r] \subseteq discovered[r]
      /\ (Done(r) /\ Len(Links(r)) < max_pages[r]) =>
           /\ Range(Links(r)) \subseteq FetchedOnce(r)
           /\ \A src \in ok_sources[r] :
                src.kind = "page" => Contribution(src, r) \subseteq Range(Links(r))

====
